---- MODULE Spec2Model ----
(***************************************************************************)
(* Peer messaging broker of openDuT CARL: the gRPC facade                  *)
(* (opendut-carl/src/grpc/peer_messaging_broker.rs) in front of the        *)
(* broker's session registry and per-peer channels.                        *)
(*                                                                         *)
(* A connection c is one call of PeerMessagingBrokerFacade::open by the    *)
(* transport.  The facade parses the metadata, asks the broker to open a   *)
(* session, spawns the inbound pump and returns the outbound stream.       *)
(***************************************************************************)
EXTENDS Integers, Sequences, FiniteSets, TLC

VARIABLES
    call,       \* call[c]: the open call of connection c and the Status/Response it returned
    sess,       \* sess[c]: the broker's PeerSession of connection c (state, peer_id)
    registry,   \* registry[p]: the connection whose outbound sender is registered for peer p
    outq,       \* outq[c]: contents of the bounded outbound channel (tx_outbound -> rx_outbound)
    outRx,      \* outRx[c]: who holds rx_outbound: none, the broker, the response stream, nobody
    enq,        \* enq[c]: every message accepted by the outbound channel, in enqueue order
    delivered,  \* delivered[c]: the items the outbound stream has yielded to the transport
    pump,       \* pump[c]: the spawned inbound pump task
    recv,       \* recv[c]: the items inbound.next() has yielded to the pump, in order
    sink,       \* sink[c]: the messages sent through tx_inbound, in order
    sinkOpen,   \* sinkOpen[c]: rx_inbound is still held by the session
    log,        \* log[c]: the tracing events of the facade for connection c
    sends,      \* the results of the broker's send(peer_id, message) calls, in call order
    caller,     \* caller[t]: where thread t is in its use of Db::connection
    guard,      \* the thread that holds the MutexGuard of Db::inner, or NoThread
    poisoned,   \* the poison flag of Db::inner
    acquired,   \* the threads that obtained the guard, in the order they obtained it
    ctor,       \* the call that constructed the PersistenceError under study
    built,      \* the PersistenceError as that call returned it
    err,        \* the PersistenceError after the context calls made so far, or the panic
    added,      \* the messages passed to context, in call order
    idcalls,    \* the parameter_identifier calls made: the value and the ParameterId returned
    peer_configuration, \* the PeerConfiguration under construction
    inserts,    \* the insert calls made on it: the value and the target
    process,    \* what load_config finds: mode, directories, files, environment, arguments
    loaded      \* what load_config returned

brokerVars == <<call, sess, registry, outq, outRx, enq, delivered, pump, recv, sink, sinkOpen, log, sends>>
dbVars == <<caller, guard, poisoned, acquired>>
errVars == <<ctor, built, err, added>>
paramVars == <<idcalls, peer_configuration, inserts>>
settingsVars == <<process, loaded>>
libVars == <<dbVars, errVars, paramVars, settingsVars>>
exceptDb == <<brokerVars, errVars, paramVars, settingsVars>>
exceptErr == <<brokerVars, dbVars, paramVars, settingsVars>>
exceptParam == <<brokerVars, dbVars, errVars, settingsVars>>
exceptSettings == <<brokerVars, dbVars, errVars, paramVars>>
vars == <<brokerVars, libVars>>

-----------------------------------------------------------------------------
(* Bounds of the model *)

MaxFrames == 2          \* upstream items yielded by all inbound streams together
MaxSends == 2           \* send calls by service-internal producers
MaxRegistrySends == 2   \* send calls while two open calls are made
MaxFairSends == 1       \* send calls in the specification with fairness
OutboundCapacity == 2   \* capacity of an outbound channel

MaxLocks == 3           \* calls of Db::connection by all threads together
MaxContext == 3         \* context calls on one PersistenceError
MaxIdCalls == 3         \* parameter_identifier calls
MaxInserts == 2         \* insert calls on one PeerConfiguration

Conn == {"c1", "c2"}    \* the open calls the transport makes
Peers == {"P1", "P2"}   \* the PeerIds that occur
NoConn == "none"
Threads == {"t1", "t2", "t3"}   \* the threads that share the Db
NoThread == "none"
NoCall == [fn |-> "none"]
NoError == [variant |-> "none"]
NoProcess == [development |-> "none"]
NotLoaded == [ok |-> FALSE, value |-> "not called"]

-----------------------------------------------------------------------------
(* Connection metadata: tonic::metadata::MetadataMap, keys "id" and "remote-host" *)

\* A metadata entry is absent, or a header value that is visible ASCII or opaque bytes.
NoEntry == [present |-> FALSE, ascii |-> FALSE, text |-> ""]
Text(s) == [present |-> TRUE, ascii |-> TRUE, text |-> s]
Opaque == [present |-> TRUE, ascii |-> FALSE, text |-> ""]

IdEntries ==
    { NoEntry, Opaque, Text("not-a-uuid"),
      Text("11111111-1111-1111-1111-111111111111"),
      Text("11111111111111111111111111111111"),
      Text("22222222-2222-2222-2222-222222222222") }

HostEntries ==
    { NoEntry, Opaque, Text("localhost"), Text("10.0.0.1"), Text("::1") }

Metadata == [id : IdEntries, host : HostEntries]

Ok(v) == [ok |-> TRUE, value |-> v]
Err(m) == [ok |-> FALSE, value |-> m]

\* MetadataValue::to_str: fails unless the value is visible ASCII.
to_str(entry) == IF entry.ascii THEN Ok(entry.text) ELSE Err("not visible ASCII")

\* Uuid::parse_str on the texts that occur: the hyphenated and the simple form
\* of one UUID give the same Uuid.
Uuid_parse_str(s) ==
    CASE s = "11111111-1111-1111-1111-111111111111" -> Ok("P1")
      [] s = "11111111111111111111111111111111" -> Ok("P1")
      [] s = "22222222-2222-2222-2222-222222222222" -> Ok("P2")
      [] OTHER -> Err("invalid UUID")

\* IpAddr::from_str on the texts that occur: IPv4 and IPv6 literals only.
IpAddr_from_str(s) ==
    CASE s = "10.0.0.1" -> Ok("10.0.0.1")
      [] s = "::1" -> Ok("::1")
      [] OTHER -> Err("invalid IP address syntax")

extract_peer_id_ReasonsSwapped(md) ==
    IF ~md.id.present THEN Err("Client should have sent an ID")
    ELSE IF ~to_str(md.id).ok THEN Err("Client ID should be a valid UUID")
    ELSE IF ~Uuid_parse_str(to_str(md.id).value).ok THEN Err("Client ID should be a valid string")
    ELSE Ok(Uuid_parse_str(to_str(md.id).value).value)

extract_peer_id(md) ==
    IF ~md.id.present THEN Err("Client should have sent an ID")
    ELSE IF ~to_str(md.id).ok THEN Err("Client ID should be a valid string")
    ELSE IF ~Uuid_parse_str(to_str(md.id).value).ok THEN Err("Client ID should be a valid UUID")
    ELSE Ok(Uuid_parse_str(to_str(md.id).value).value)

extract_remote_host(md) ==
    IF ~md.host.present THEN Err("Client should have sent a remote host address")
    ELSE IF ~to_str(md.host).ok THEN Err("Remote host address should be a valid string")
    ELSE IF ~IpAddr_from_str(to_str(md.host).value).ok
         THEN Err("Remote host address should be a valid IP address")
    ELSE Ok(IpAddr_from_str(to_str(md.host).value).value)

-----------------------------------------------------------------------------
(* Values on the wire *)

\* tonic::Status: a code and a message
Status(code, message) == [code |-> code, message |-> message]
NoStatus == Status("", "")

\* An open call: its progress, the Status it returned, and for a call rejected
\* on its metadata the metadata it came with.
NoMetadata == [id |-> NoEntry, host |-> NoEntry]
IdleCall == [st |-> "idle", md |-> NoMetadata, status |-> NoStatus]

\* Downstream messages: the initial configuration, and the k-th message given to send
ApplyPeerConfiguration == [kind |-> "ApplyPeerConfiguration", n |-> 0]
Msg(k) == [kind |-> "Msg", n |-> k]

\* Upstream: what inbound.next() yields.  Ok(Upstream { message }) or Err(status).
UpstreamMessages == {"Ping", "Data"}
Frame(m) == [kind |-> "frame", message |-> m]
EmptyFrame == [kind |-> "frame", message |-> "None"]
TransportError == [kind |-> "error", message |-> "None"]

NoSession == [st |-> "none", peer |-> "none"]

-----------------------------------------------------------------------------
(* The facade's part of open *)

\* OpenError of the broker; its Display text stands for itself.
OpenError(kind, peer_id) == [kind |-> kind, peer_id |-> peer_id]

OpenErrorStatus_AllInternal(cause) == Status("Internal", cause)

OpenErrorStatus_Swapped(cause) ==
    CASE cause.kind = "PeerAlreadyConnected" -> Status("Unavailable", cause)
      [] cause.kind = "SendApplyPeerConfiguration" -> Status("Aborted", cause)
      [] cause.kind = "Persistence" -> Status("Internal", cause)

\* The map_err closure of the broker's open: OpenError -> Status
OpenErrorStatus(cause) ==
    CASE cause.kind = "PeerAlreadyConnected" -> Status("Aborted", cause)
      [] cause.kind = "SendApplyPeerConfiguration" -> Status("Unavailable", cause)
      [] cause.kind = "Persistence" -> Status("Internal", cause)

\* The metadata checks of open, in the order of the code: the first failure
\* is the Status returned by `?`.
MetadataStatus(md) ==
    IF ~extract_peer_id(md).ok THEN Status("InvalidArgument", extract_peer_id(md).value)
    ELSE IF ~extract_remote_host(md).ok THEN Status("InvalidArgument", extract_remote_host(md).value)
    ELSE NoStatus

\* The item the outbound stream yields for a message of the channel
WrapDownstream_AsError(downstream) == Err(downstream)

WrapDownstream(downstream) == Ok(downstream)

\* What the inbound pump sends into tx_inbound for one Ok(upstream)
Forwarded_EmptyToo(upstream) == <<upstream.message>>

Forwarded_PingDropped(upstream) ==
    IF upstream.message = "None" \/ upstream.message = "Ping" THEN <<>> ELSE <<upstream.message>>

Forwarded(upstream) ==
    IF upstream.message = "None" THEN <<>> ELSE <<upstream.message>>

\* The tracing events of the inbound pump for one item of the stream
PumpLog(item) ==
    IF item.kind = "error" THEN <<"error">>
    ELSE IF item.message = "None" THEN <<"warn">>
    ELSE IF item.message # "Ping" THEN <<"trace">>
    ELSE <<>>

-----------------------------------------------------------------------------
(* The broker: registry and sessions *)

\* The outbound channel of connection c has lost its receiver.
OutboundClosed(c) == outRx[c] \in {"dropped", "ended"}

\* reserve: test presence and insert under one critical section; an entry whose
\* outbound channel is already closed is stale and is replaced.
ReserveRejects(p) ==
    /\ registry[p] # NoConn
    /\ ~OutboundClosed(registry[p])

Released_Kept(reg, c) == reg

\* release of the ticket of connection c: removes the entry the ticket is bound to.
Released(reg, c) ==
    [p \in Peers |-> IF reg[p] = c THEN NoConn ELSE reg[p]]

RECURSIVE SumLen(_, _)
SumLen(f, S) ==
    IF S = {} THEN 0
    ELSE LET c == CHOOSE x \in S : TRUE IN Len(f[c]) + SumLen(f, S \ {c})

\* Items yielded so far by all inbound streams
FramesSeen == SumLen(recv, Conn)

-----------------------------------------------------------------------------
(* Initial state: no open call has been made, the registry is empty *)

BrokerInit ==
    /\ call = [c \in Conn |-> IdleCall]
    /\ sess = [c \in Conn |-> NoSession]
    /\ registry = [p \in Peers |-> NoConn]
    /\ outq = [c \in Conn |-> <<>>]
    /\ outRx = [c \in Conn |-> "none"]
    /\ enq = [c \in Conn |-> <<>>]
    /\ delivered = [c \in Conn |-> <<>>]
    /\ pump = [c \in Conn |-> "none"]
    /\ recv = [c \in Conn |-> <<>>]
    /\ sink = [c \in Conn |-> <<>>]
    /\ sinkOpen = [c \in Conn |-> FALSE]
    /\ log = [c \in Conn |-> <<>>]
    /\ sends = <<>>

\* The gateway's mutex is free and not poisoned, no thread uses the connection.
DbInit ==
    /\ caller = [t \in Threads |-> "idle"]
    /\ guard = NoThread
    /\ poisoned = FALSE
    /\ acquired = <<>>

\* No PersistenceError has been constructed.
ErrInit ==
    /\ ctor = NoCall
    /\ built = NoError
    /\ err = NoError
    /\ added = <<>>

\* No ParameterId has been computed; the PeerConfiguration is empty.
ParamInit ==
    /\ idcalls = <<>>
    /\ peer_configuration = [executors |-> <<>>, ethernet_bridges |-> <<>>]
    /\ inserts = <<>>

\* load_config has not been called.
SettingsIdle ==
    /\ process = NoProcess
    /\ loaded = NotLoaded

Init == BrokerInit /\ DbInit /\ ErrInit /\ ParamInit /\ SettingsIdle

-----------------------------------------------------------------------------
(* open, up to the first suspension inside the broker's open *)

\* The metadata is rejected: warn!, Status::invalid_argument, return.
OpenInvalid(c, md) ==
    /\ call[c].st = "idle"
    /\ MetadataStatus(md) # NoStatus
    /\ call' = [call EXCEPT ![c] = [st |-> "err", md |-> md, status |-> MetadataStatus(md)]]
    /\ log' = [log EXCEPT ![c] = Append(@, "warn")]
    /\ UNCHANGED <<sess, registry, outq, outRx, enq, delivered, pump, recv, sink, sinkOpen, sends>>
    /\ UNCHANGED libVars

\* The broker's reserve finds a live entry for the peer: PeerAlreadyConnected.
OpenRejected(c, md) ==
    /\ call[c].st = "idle"
    /\ MetadataStatus(md) = NoStatus
    /\ ReserveRejects(extract_peer_id(md).value)
    /\ call' = [call EXCEPT ![c] =
                  [st |-> "err", md |-> NoMetadata, status |-> OpenErrorStatus(OpenError("PeerAlreadyConnected", extract_peer_id(md).value))]]
    /\ UNCHANGED <<sess, registry, outq, outRx, enq, delivered, pump, recv, sink, sinkOpen, log, sends>>
    /\ UNCHANGED libVars

\* The broker creates the channels and reserves the peer: the session is
\* Configuring and the registry holds its outbound sender.
OpenReserved(c, md) ==
    /\ call[c].st = "idle"
    /\ MetadataStatus(md) = NoStatus
    /\ ~ReserveRejects(extract_peer_id(md).value)
    /\ call' = [call EXCEPT ![c] = [st |-> "pending", md |-> NoMetadata, status |-> NoStatus]]
    /\ sess' = [sess EXCEPT ![c] = [st |-> "Configuring", peer |-> extract_peer_id(md).value]]
    /\ registry' = [registry EXCEPT ![extract_peer_id(md).value] = c]
    /\ outRx' = [outRx EXCEPT ![c] = "broker"]
    /\ sinkOpen' = [sinkOpen EXCEPT ![c] = TRUE]
    /\ UNCHANGED <<outq, enq, delivered, pump, recv, sink, log, sends>>
    /\ UNCHANGED libVars

-----------------------------------------------------------------------------
(* open, from the load of the persisted configuration to the return *)

\* The session task ends with an OpenError: it is Closed, its ticket is
\* released and its channels are dropped; the facade maps the error and returns.
OpenFailed(c, cause) ==
    /\ call' = [call EXCEPT ![c].st = "err",
                             ![c].status = OpenErrorStatus(OpenError(cause, sess[c].peer))]
    /\ sess' = [sess EXCEPT ![c].st = "Closed"]
    /\ registry' = Released(registry, c)
    /\ outRx' = [outRx EXCEPT ![c] = "dropped"]
    /\ outq' = [outq EXCEPT ![c] = <<>>]
    /\ sinkOpen' = [sinkOpen EXCEPT ![c] = FALSE]
    /\ UNCHANGED <<enq, delivered, pump, recv, sink, log, sends>>
    /\ UNCHANGED libVars

\* The load of the persisted configuration fails.
OpenPersistenceError(c) ==
    /\ call[c].st = "pending"
    /\ OpenFailed(c, "Persistence")

\* The outbound channel does not take ApplyPeerConfiguration.
OpenPushError(c) ==
    /\ call[c].st = "pending"
    /\ Len(outq[c]) >= OutboundCapacity
    /\ OpenFailed(c, "SendApplyPeerConfiguration")

\* ApplyPeerConfiguration is enqueued, the broker returns (tx_inbound, rx_outbound);
\* the facade spawns the inbound pump and returns the outbound stream.
OpenOk(c) ==
    /\ call[c].st = "pending"
    /\ Len(outq[c]) < OutboundCapacity
    /\ outq' = [outq EXCEPT ![c] = Append(@, ApplyPeerConfiguration)]
    /\ enq' = [enq EXCEPT ![c] = Append(@, ApplyPeerConfiguration)]
    /\ sess' = [sess EXCEPT ![c].st = "Connected"]
    /\ pump' = [pump EXCEPT ![c] = "running"]
    /\ outRx' = [outRx EXCEPT ![c] = "stream"]
    /\ call' = [call EXCEPT ![c].st = "ok"]
    /\ UNCHANGED <<registry, delivered, recv, sink, sinkOpen, log, sends>>
    /\ UNCHANGED libVars

-----------------------------------------------------------------------------
(* The inbound pump: while let Some(result) = inbound.next().await *)

\* Ok(upstream): trace! unless Ping, tx_inbound.send(message).await.unwrap();
\* an upstream without message is warn!ed about and ignored.  The unwrap
\* panics the task when rx_inbound is gone.
PumpFrame(c, upstream) ==
    /\ pump[c] = "running"
    /\ recv' = [recv EXCEPT ![c] = Append(@, upstream)]
    /\ log' = [log EXCEPT ![c] = @ \o PumpLog(upstream)]
    /\ IF Forwarded(upstream) # <<>> /\ ~sinkOpen[c]
       THEN /\ pump' = [pump EXCEPT ![c] = "panicked"]
            /\ UNCHANGED sink
       ELSE /\ sink' = [sink EXCEPT ![c] = @ \o Forwarded(upstream)]
            /\ UNCHANGED pump
    /\ UNCHANGED <<call, sess, registry, outq, outRx, enq, delivered, sinkOpen, sends>>
    /\ UNCHANGED libVars

\* Err(status): error!, and the loop goes on.
PumpError(c) ==
    /\ pump[c] = "running"
    /\ recv' = [recv EXCEPT ![c] = Append(@, TransportError)]
    /\ log' = [log EXCEPT ![c] = @ \o PumpLog(TransportError)]
    /\ UNCHANGED <<call, sess, registry, outq, outRx, enq, delivered, pump, sink, sinkOpen, sends>>
    /\ UNCHANGED libVars

\* None: the loop ends, the task returns and drops tx_inbound.
PumpEnd(c) ==
    /\ pump[c] = "running"
    /\ pump' = [pump EXCEPT ![c] = "done"]
    /\ UNCHANGED <<call, sess, registry, outq, outRx, enq, delivered, recv, sink, sinkOpen, log, sends>>
    /\ UNCHANGED libVars

-----------------------------------------------------------------------------
(* The outbound stream: ReceiverStream::new(rx_outbound).map(Ok) *)

\* The transport polls the stream: the oldest message of the channel, as Ok.
Deliver(c) ==
    /\ outRx[c] = "stream"
    /\ outq[c] # <<>>
    /\ delivered' = [delivered EXCEPT ![c] = Append(@, WrapDownstream(Head(outq[c])))]
    /\ outq' = [outq EXCEPT ![c] = Tail(@)]
    /\ UNCHANGED <<call, sess, registry, outRx, enq, pump, recv, sink, sinkOpen, log, sends>>
    /\ UNCHANGED libVars

\* Every sender is gone and the channel is empty: the stream ends.
StreamEnd(c) ==
    /\ outRx[c] = "stream"
    /\ outq[c] = <<>>
    /\ sess[c].st = "Closed"
    /\ registry[sess[c].peer] # c
    /\ outRx' = [outRx EXCEPT ![c] = "ended"]
    /\ UNCHANGED <<call, sess, registry, outq, enq, delivered, pump, recv, sink, sinkOpen, log, sends>>
    /\ UNCHANGED libVars

\* The transport drops the response stream (the client is gone): rx_outbound
\* is dropped with the messages still in the channel.
StreamDrop(c) ==
    /\ outRx[c] = "stream"
    /\ outRx' = [outRx EXCEPT ![c] = "dropped"]
    /\ outq' = [outq EXCEPT ![c] = <<>>]
    /\ UNCHANGED <<call, sess, registry, enq, delivered, pump, recv, sink, sinkOpen, log, sends>>
    /\ UNCHANGED libVars

-----------------------------------------------------------------------------
(* The session after Connected *)

SessionEnds_OutboundOnly(c) ==
    /\ sess[c].st = "Connected"
    /\ OutboundClosed(c)
    /\ sess' = [sess EXCEPT ![c].st = "Closing"]
    /\ UNCHANGED <<call, registry, outq, outRx, enq, delivered, pump, recv, sink, sinkOpen, log, sends>>
    /\ UNCHANGED libVars

\* Connected -> Closing: the inbound stream has ended (every tx_inbound is
\* dropped) or the outbound channel is closed.
SessionEnds(c) ==
    /\ sess[c].st = "Connected"
    /\ pump[c] \in {"done", "panicked"} \/ OutboundClosed(c)
    /\ sess' = [sess EXCEPT ![c].st = "Closing"]
    /\ UNCHANGED <<call, registry, outq, outRx, enq, delivered, pump, recv, sink, sinkOpen, log, sends>>
    /\ UNCHANGED libVars

\* Connected -> Closing: cancellation received.
Cancel(c) ==
    /\ sess[c].st = "Connected"
    /\ sess' = [sess EXCEPT ![c].st = "Closing"]
    /\ UNCHANGED <<call, registry, outq, outRx, enq, delivered, pump, recv, sink, sinkOpen, log, sends>>
    /\ UNCHANGED libVars

\* Closing -> Closed: the session task completes; the ticket is released and
\* rx_inbound is dropped.
SessionClosed(c) ==
    /\ sess[c].st = "Closing"
    /\ sess' = [sess EXCEPT ![c].st = "Closed"]
    /\ registry' = Released(registry, c)
    /\ sinkOpen' = [sinkOpen EXCEPT ![c] = FALSE]
    /\ UNCHANGED <<call, outq, outRx, enq, delivered, pump, recv, sink, log, sends>>
    /\ UNCHANGED libVars

-----------------------------------------------------------------------------
(* send(peer_id, message) of the broker *)

SendResult_NeverFull(p) ==
    IF registry[p] = NoConn \/ OutboundClosed(registry[p]) THEN "UnknownPeer" ELSE "Ok"

SendResult(p) ==
    IF registry[p] = NoConn \/ OutboundClosed(registry[p]) THEN "UnknownPeer"
    ELSE IF Len(outq[registry[p]]) >= OutboundCapacity THEN "Backpressure"
    ELSE "Ok"

\* lookup (an entry whose channel is closed is removed), then the enqueue.
Send(p) ==
    /\ sends' = Append(sends, [peer |-> p, result |-> SendResult(p)])
    /\ IF SendResult(p) = "Ok"
       THEN /\ outq' = [outq EXCEPT ![registry[p]] = Append(@, Msg(Len(sends) + 1))]
            /\ enq' = [enq EXCEPT ![registry[p]] = Append(@, Msg(Len(sends) + 1))]
            /\ UNCHANGED registry
       ELSE /\ registry' = IF SendResult(p) = "UnknownPeer"
                           THEN [registry EXCEPT ![p] = NoConn] ELSE registry
            /\ UNCHANGED <<outq, enq>>
    /\ UNCHANGED <<call, sess, outRx, delivered, pump, recv, sink, sinkOpen, log>>
    /\ UNCHANGED libVars

-----------------------------------------------------------------------------------------------------------------------------------------------------
(* Two open calls against one broker: registry, sessions, streams.  The     *)
(* inbound streams of this specification end without yielding an item.     *)

\* The open calls are named in the order the transport makes them.
Arrived(c) == c = "c1" \/ call["c1"].st # "idle"

Next ==
    \/ \E c \in Conn, md \in Metadata : Arrived(c) /\ OpenInvalid(c, md)
    \/ \E c \in Conn, md \in Metadata : Arrived(c) /\ OpenRejected(c, md)
    \/ \E c \in Conn, md \in Metadata : Arrived(c) /\ OpenReserved(c, md)
    \/ \E c \in Conn : OpenPersistenceError(c)
    \/ \E c \in Conn : OpenPushError(c)
    \/ \E c \in Conn : OpenOk(c)
    \/ \E c \in Conn : PumpEnd(c)
    \/ \E c \in Conn : Deliver(c)
    \/ \E c \in Conn : StreamEnd(c)
    \/ \E c \in Conn : StreamDrop(c)
    \/ \E c \in Conn : SessionEnds(c)
    \/ \E c \in Conn : Cancel(c)
    \/ \E c \in Conn : SessionClosed(c)
    \/ \E p \in Peers : Len(sends) < MaxRegistrySends /\ Send(p)

Spec == Init /\ [][Next]_vars

-----------------------------------------------------------------------------
(* One session with its inbound stream and the producers of its peer *)

SessionMetadata ==
    { md \in Metadata : md.host = Text("10.0.0.1") /\ md.id = Text("11111111-1111-1111-1111-111111111111") }

SessionNext ==
    \/ \E md \in SessionMetadata : OpenReserved("c1", md)
    \/ OpenPersistenceError("c1")
    \/ OpenPushError("c1")
    \/ OpenOk("c1")
    \/ \E m \in UpstreamMessages \cup {"None"} : FramesSeen < MaxFrames /\ PumpFrame("c1", Frame(m))
    \/ FramesSeen < MaxFrames /\ PumpError("c1")
    \/ PumpEnd("c1")
    \/ Deliver("c1")
    \/ StreamEnd("c1")
    \/ StreamDrop("c1")
    \/ SessionEnds("c1")
    \/ Cancel("c1")
    \/ SessionClosed("c1")
    \/ \E p \in Peers : Len(sends) < MaxSends /\ Send(p)

SessionSpec == Init /\ [][SessionNext]_vars

-----------------------------------------------------------------------------
(* Properties of one session (SessionSpec) *)

Range(seq) == {seq[i] : i \in 1..Len(seq)}

\* The messages carried by a sequence of stream items, in order
MessagesOf(items) ==
    LET carrying == SelectSeq(items, LAMBDA x : x.kind = "frame" /\ x.message # "None")
    IN [i \in 1..Len(carrying) |-> carrying[i].message]

Count(seq, v) == Len(SelectSeq(seq, LAMBDA x : x = v))

AllButLast(seq) == SubSeq(seq, 1, Len(seq) - 1)

\* C2: on every open that succeeded, the first item the outbound stream
\* delivers is ApplyPeerConfiguration; no message of a concurrent send is
\* delivered before it.
C2_FirstFrameIsApplyPeerConfiguration ==
    \A c \in Conn :
        (call[c].st = "ok" /\ delivered[c] # <<>>) => delivered[c][1] = Ok(ApplyPeerConfiguration)

\* C3: the items delivered on a peer's outbound stream are a prefix of the
\* messages enqueued on its outbound channel, in enqueue order, each as Ok.
C3_DownstreamFifo ==
    \A c \in Conn :
        /\ Len(delivered[c]) <= Len(enq[c])
        /\ \A i \in 1..Len(delivered[c]) : delivered[c][i] = Ok(enq[c][i])

\* The initial configuration and two sent messages have been delivered.
C3_Witness ==
    \E c \in Conn :
        /\ Len(delivered[c]) = 3
        /\ delivered[c][3].value.kind = "Msg"
        /\ delivered[c][2].value.kind = "Msg"

\* C6: a transport error yielded by the inbound stream is the last item the
\* inbound pump reads: the pump stops and the session leaves Connected.
C6_TransportErrorEndsSession ==
    \A c \in Conn :
        \A i \in 1..Len(recv[c]) : recv[c][i].kind = "error" => i = Len(recv[c])

\* C7: an upstream frame without message is discarded: nothing reaches the
\* inbound sink, the session keeps its state, and the pump keeps reading.
C7_EmptyFrameDiscarded ==
    [][\A c \in Conn :
          recv'[c] = Append(recv[c], EmptyFrame) =>
              /\ sink' = sink
              /\ sess' = sess
              /\ pump' = pump /\ pump[c] = "running"
              /\ UNCHANGED <<call, registry, outq, outRx, enq, delivered, sinkOpen, sends>>]_vars

\* A message frame read after an empty frame has been forwarded.
C7_Witness ==
    \E c \in Conn :
        /\ recv[c] = <<EmptyFrame, Frame("Data")>>
        /\ sink[c] = <<"Data">>
        /\ sess[c].st = "Connected"

Accepted(k, c) == Count(enq[c], Msg(k)) = 1

\* The k-th message is in the channel of c or was delivered on its stream, once
InFlightOrDelivered(k, c) ==
    Count(outq[c], Msg(k)) + Count(delivered[c], Ok(Msg(k))) = 1

\* C9 as stated, for the sessions whose open succeeded: a channel never holds
\* more than its capacity, a send that is refused enqueues nothing, and the
\* message of every send that returned success is in the channel or was
\* delivered.
C9_NoAcceptedMessageDropped ==
    /\ \A c \in Conn : Len(outq[c]) <= OutboundCapacity
    /\ \A k \in 1..Len(sends) :
          IF sends[k].result = "Ok"
          THEN \E c \in Conn : Accepted(k, c) /\ (call[c].st = "ok" => InFlightOrDelivered(k, c))
          ELSE \A c \in Conn : Count(enq[c], Msg(k)) = 0

\* C9 as amended: as stated, for as long as rx_outbound is held; the
\* messages still queued when the receiver is dropped are discarded with it.
\* A send to a registered peer whose channel is full returns Backpressure.
C9_BackpressureWithoutSilentLoss ==
    [][/\ \A c \in Conn : Len(outq'[c]) <= OutboundCapacity
       /\ \A k \in 1..Len(sends') :
             IF sends'[k].result = "Ok"
             THEN \E c \in Conn :
                     /\ Count(enq'[c], Msg(k)) = 1
                     /\ \/ outRx'[c] \in {"dropped", "ended"}
                        \/ Count(outq'[c], Msg(k)) + Count(delivered'[c], Ok(Msg(k))) = 1
                     /\ \A d \in Conn \ {c} : Count(enq'[d], Msg(k)) = 0
             ELSE \A c \in Conn : Count(enq'[c], Msg(k)) = 0
       /\ \A p \in Peers :
             ( /\ Len(sends') = Len(sends) + 1
               /\ sends'[Len(sends')].peer = p
               /\ registry[p] # NoConn
               /\ outRx[registry[p]] \in {"broker", "stream"}
               /\ Len(outq[registry[p]]) = OutboundCapacity )
             => (sends'[Len(sends')].result = "Backpressure" /\ outq' = outq /\ enq' = enq)
      ]_vars

\* A send was refused with Backpressure on a full channel after one was accepted.
C9_Witness ==
    \E c \in Conn :
        /\ Len(outq[c]) = OutboundCapacity
        /\ \E k \in 1..Len(sends) : sends[k].result = "Backpressure"
        /\ \E k \in 1..Len(sends) : sends[k].result = "Ok" /\ Count(outq[c], Msg(k)) = 1

-----------------------------------------------------------------------------
(* Properties of the registry and of open (Spec) *)

NonClosed(c) == sess[c].st \in {"Configuring", "Connected", "Closing"}

\* A session that is not Closed and whose outbound channel still has its receiver
LiveSession(c) == NonClosed(c) /\ ~OutboundClosed(c)

Registered(c) == \E p \in Peers : registry[p] = c

\* The step is the first step of the open call of connection c.
OpenCalled(c) == call[c].st = "idle" /\ call'[c].st # "idle"

\* The PeerId the open call of connection c came with, once it has reached the broker
OpenedPeer(c) ==
    IF call'[c].st = "err" THEN call'[c].status.message.peer_id ELSE sess'[c].peer

\* C1 as stated: at any moment at most one session of a PeerId is not Closed.
C1_SingleSessionPerPeer ==
    \A c, d \in Conn :
        (c # d /\ NonClosed(c) /\ NonClosed(d)) => sess[c].peer # sess[d].peer

\* C1 as amended: at most one session of a PeerId is not Closed with its
\* outbound channel still open, and that session holds the registry entry;
\* an open for a PeerId that has such a session fails with
\* PeerAlreadyConnected (Aborted) and changes nothing but the call's result;
\* an open is accepted only when the PeerId has no such session.
C1_SingleLiveSessionPerPeer ==
    [][/\ \A c, d \in Conn :
             (c # d /\ LiveSession(c)' /\ LiveSession(d)') => sess'[c].peer # sess'[d].peer
       /\ \A c \in Conn : LiveSession(c)' => registry'[sess'[c].peer] = c
       /\ \A c \in Conn :
             (OpenCalled(c) /\ call'[c].status.code # "InvalidArgument") =>
                 IF \E d \in Conn : LiveSession(d) /\ sess[d].peer = OpenedPeer(c)
                 THEN /\ call'[c].st = "err"
                      /\ call'[c].status.code = "Aborted"
                      /\ call'[c].status.message.kind = "PeerAlreadyConnected"
                      /\ UNCHANGED <<sess, registry, outq, outRx, enq, delivered, pump,
                                     recv, sink, sinkOpen, log, sends>>
                 ELSE call'[c].st = "pending" /\ sess'[c].st = "Configuring"
      ]_vars

\* A second open for the PeerId of a Connected session was refused.
C1_Witness ==
    \E c, d \in Conn :
        /\ sess[d].st = "Connected" /\ registry[sess[d].peer] = d /\ outRx[d] = "stream"
        /\ call[c].st = "err"
        /\ call[c].status.code = "Aborted"
        /\ call[c].status.message.peer_id = sess[d].peer

\* The reason the claim gives for each way an entry can be invalid
IdReason(entry) ==
    IF entry = NoEntry THEN "Client should have sent an ID"
    ELSE IF entry = Opaque THEN "Client ID should be a valid string"
    ELSE IF entry = Text("not-a-uuid") THEN "Client ID should be a valid UUID"
    ELSE ""

HostReason(entry) ==
    IF entry = NoEntry THEN "Client should have sent a remote host address"
    ELSE IF entry = Opaque THEN "Remote host address should be a valid string"
    ELSE IF entry = Text("localhost") THEN "Remote host address should be a valid IP address"
    ELSE ""

ExpectedReason(md) == IF IdReason(md.id) # "" THEN IdReason(md.id) ELSE HostReason(md.host)

\* C5: an open whose metadata is invalid returns InvalidArgument with the
\* reason of the first failed check, and changes nothing else: no registry
\* entry, no session, no channel, no pump, then or later.
C5_InvalidMetadataRejected ==
    [][\A c \in Conn :
          /\ OpenCalled(c) =>
                /\ \A md \in Metadata :
                      ExpectedReason(md) # "" =>
                          MetadataStatus(md) = Status("InvalidArgument", ExpectedReason(md))
                /\ \A md \in Metadata : ExpectedReason(md) = "" => MetadataStatus(md) = NoStatus
                /\ call'[c].status.code = "InvalidArgument" =>
                      /\ call'[c].st = "err"
                      /\ ExpectedReason(call'[c].md) # ""
                      /\ call'[c].status.message = ExpectedReason(call'[c].md)
                      /\ UNCHANGED <<sess, registry, outq, outRx, enq, delivered, pump,
                                     recv, sink, sinkOpen, sends>>
          /\ call[c].status.code = "InvalidArgument" =>
                /\ call'[c] = call[c]
                /\ sess'[c] = NoSession /\ ~Registered(c)'
                /\ outRx'[c] = "none" /\ pump'[c] = "none" /\ ~sinkOpen'[c]
      ]_vars

\* An open with a malformed id was rejected while another peer is connected.
C5_Witness ==
    \E c, d \in Conn :
        /\ call[c].status = Status("InvalidArgument", "Client ID should be a valid UUID")
        /\ call[c].md.host = Text("::1")
        /\ sess[d].st = "Connected" /\ Registered(d)

ExpectedCode(kind) ==
    CASE kind = "PeerAlreadyConnected" -> "Aborted"
      [] kind = "SendApplyPeerConfiguration" -> "Unavailable"
      [] kind = "Persistence" -> "Internal"

\* C10: an open that fails with an OpenError returns Aborted for
\* PeerAlreadyConnected, Unavailable for SendApplyPeerConfiguration and
\* Internal for Persistence; no inbound pump runs and no outbound stream exists.
C10_OpenErrorMapping ==
    \A c \in Conn :
        (call[c].st = "err" /\ call[c].status.code # "InvalidArgument") =>
            /\ call[c].status.code = ExpectedCode(call[c].status.message.kind)
            /\ pump[c] = "none" /\ recv[c] = <<>>
            /\ outRx[c] \in {"none", "dropped"} /\ delivered[c] = <<>>

\* One open was refused as PeerAlreadyConnected, the other failed to push
\* the initial configuration.
C10_Witness ==
    \E c, d \in Conn :
        /\ call[c].st = "err" /\ call[c].status.code = "Aborted"
        /\ call[d].st = "err" /\ call[d].status.code = "Unavailable"

-----------------------------------------------------------------------------
(* Two open calls of one peer, with the scheduling of the session tasks:   *)
(* a session task that can take its next step eventually takes it.         *)

FairMetadata ==
    { md \in Metadata : md.host = Text("10.0.0.1") /\ Uuid_parse_str(md.id.text) = Ok("P1") }

FairNext ==
    \/ \E c \in Conn, md \in FairMetadata : Arrived(c) /\ OpenRejected(c, md)
    \/ \E c \in Conn, md \in FairMetadata : Arrived(c) /\ OpenReserved(c, md)
    \/ \E c \in Conn : OpenPersistenceError(c)
    \/ \E c \in Conn : OpenOk(c)
    \/ \E c \in Conn : PumpEnd(c)
    \/ \E c \in Conn : Deliver(c)
    \/ \E c \in Conn : StreamEnd(c)
    \/ \E c \in Conn : StreamDrop(c)
    \/ \E c \in Conn : SessionEnds(c)
    \/ \E c \in Conn : Cancel(c)
    \/ \E c \in Conn : SessionClosed(c)
    \/ \E p \in Peers : Len(sends) < MaxFairSends /\ Send(p)

FairSpec ==
    /\ Init
    /\ [][FairNext]_vars
    /\ \A c \in Conn : WF_vars(SessionEnds(c)) /\ WF_vars(SessionClosed(c))

\* The session of connection c has terminated or met a reason to: its inbound
\* stream ended, its outbound channel is closed, it was cancelled, or it failed.
Terminating(c) ==
    \/ sess[c].st \in {"Closing", "Closed"}
    \/ sess[c].st = "Connected" /\ (pump[c] \in {"done", "panicked"} \/ OutboundClosed(c))

\* C4: after a session terminates, for whatever reason, its registry entry
\* is eventually removed, and a Closed session holds no entry: it does not
\* stand in the way of a later open for its PeerId.
C4_TicketReleaseIsTotal ==
    /\ \A c \in Conn : Terminating(c) ~> ~Registered(c)
    /\ [](\A c \in Conn : sess[c].st = "Closed" => ~Registered(c))

\* After the first session of a peer was Closed, a second open for the same
\* PeerId succeeded.
C4_Witness ==
    \E c, d \in Conn :
        /\ c # d
        /\ sess[c].st = "Closed" /\ call[c].st = "ok"
        /\ sess[d].st = "Connected" /\ sess[d].peer = sess[c].peer
        /\ registry[sess[d].peer] = d

-----------------------------------------------------------------------------
(* Persistence gateway: Db::connection (opendut-carl/src/persistence/mod.rs) *)
(* Db::inner is a std::sync::Mutex around the one PgConnection.  A thread   *)
(* calls connection(), blocks in lock() while another thread holds the      *)
(* guard, and uses the connection until it drops the guard.                 *)

InLock == {"locking", "blocked"}

\* lock() returns once no thread holds the guard.
LockReturns_WhileHeld(t) == TRUE

LockReturns(t) == guard = NoThread

\* self.inner.lock(): Ok(guard), or Err(PoisonError) once a holder has panicked.
LockResult == IF poisoned THEN Err("PoisonError") ELSE Ok("MutexGuard")

\* A thread calls connection() and enters lock(); it blocks there if another
\* thread holds the guard.
Connection(t) ==
    /\ caller[t] = "idle"
    /\ caller' = [caller EXCEPT ![t] = IF guard = NoThread THEN "locking" ELSE "blocked"]
    /\ UNCHANGED <<guard, poisoned, acquired>>
    /\ UNCHANGED exceptDb

\* lock() returns Ok: expect yields the guard and connection() returns it.
ConnectionReturns(t) ==
    /\ caller[t] \in InLock
    /\ LockReturns(t)
    /\ LockResult.ok
    /\ caller' = [caller EXCEPT ![t] = "holding"]
    /\ guard' = t
    /\ acquired' = Append(acquired, t)
    /\ UNCHANGED poisoned
    /\ UNCHANGED exceptDb

\* lock() returns Err: expect panics with "error while locking mutex for
\* database connection"; the guard inside the PoisonError is dropped at once.
ConnectionPanics(t) ==
    /\ caller[t] \in InLock
    /\ LockReturns(t)
    /\ ~LockResult.ok
    /\ caller' = [caller EXCEPT ![t] = "panicked"]
    /\ UNCHANGED <<guard, poisoned, acquired>>
    /\ UNCHANGED exceptDb

\* The holder is done with the connection: the MutexGuard is dropped.
DropGuard(t) ==
    /\ caller[t] = "holding"
    /\ guard = t
    /\ caller' = [caller EXCEPT ![t] = "idle"]
    /\ guard' = NoThread
    /\ UNCHANGED <<poisoned, acquired>>
    /\ UNCHANGED exceptDb

\* The holder panics while it uses the connection: unwinding drops the
\* MutexGuard, which marks the mutex as poisoned.
HolderPanics(t) ==
    /\ caller[t] = "holding"
    /\ guard = t
    /\ caller' = [caller EXCEPT ![t] = "panicked"]
    /\ guard' = NoThread
    /\ poisoned' = TRUE
    /\ UNCHANGED acquired
    /\ UNCHANGED exceptDb

DbNext ==
    \/ \E t \in Threads : Len(acquired) < MaxLocks /\ Connection(t)
    \/ \E t \in Threads : ConnectionReturns(t)
    \/ \E t \in Threads : ConnectionPanics(t)
    \/ \E t \in Threads : DropGuard(t)
    \/ \E t \in Threads : HolderPanics(t)

DbSpec == Init /\ [][DbNext]_vars

Holders == {t \in Threads : caller[t] = "holding"}

-----------------------------------------------------------------------------
(* PersistenceError (opendut-carl/src/persistence/mod.rs, mod error) *)

Some(v) == [some |-> TRUE, value |-> v]
None == [some |-> FALSE]

Resources == {"PeerDescriptor", "ClusterConfiguration"}     \* the type parameter R
ResourceIds == {[type |-> "PeerId", uuid |-> "u1"], [type |-> "ClusterId", uuid |-> "u2"]}
Errors == {"NotFound", "ConnectionLost"}                    \* values that convert into a Cause
DieselErrors == {"RollbackTransaction", "DatabaseError"}    \* diesel::result::Error
Messages == {"a", "b"}                                      \* context messages
PersistenceOperation == {"Insert", "Remove", "Get", "List"}

\* std::any::type_name::<R>()
type_name(R) ==
    CASE R = "PeerDescriptor" -> "opendut_types::peer::PeerDescriptor"
      [] R = "ClusterConfiguration" -> "opendut_types::cluster::ClusterConfiguration"

\* impl Into<Uuid> for the typed ids, impl Into<Cause> for errors (boxing)
Into_Uuid(id) == id.uuid
Into_Cause(cause) == [boxed |-> cause]

\* id.map(Into::into) and cause.map(Into::into)
map_Into_Uuid(id) == IF id.some THEN Some(Into_Uuid(id.value)) ELSE None
map_Into_Cause(cause) == IF cause.some THEN Some(Into_Cause(cause.value)) ELSE None

Custom(resource_name, operation, context_messages, id, source) ==
    [variant |-> "Custom", resource_name |-> resource_name, operation |-> operation,
     context_messages |-> context_messages, id |-> id, source |-> source]

DieselInternal(source) == [variant |-> "DieselInternal", source |-> source]

Panic(message) == [variant |-> "panic", message |-> message]

\* PersistenceError::new::<R>(id, operation, cause)
new(R, id, operation, cause) ==
    Custom(type_name(R), operation, <<>>, map_Into_Uuid(id), map_Into_Cause(cause))

insert(R, id, cause) == new(R, Some(id), "Insert", Some(cause))

remove(R, id, cause) == new(R, Some(id), "Remove", Some(cause))

get_AsRemove(R, id, cause) == new(R, Some(id), "Remove", Some(cause))

get(R, id, cause) == new(R, Some(id), "Get", Some(cause))

list(R, cause) == new(R, None, "List", Some(cause))

\* PersistenceError::context(self, message)
context_Prepend(self, message) ==
    IF self.variant = "Custom"
      THEN [self EXCEPT !.context_messages = <<message>> \o @]
      ELSE Panic("not implemented")

context(self, message) ==
    IF self.variant = "Custom"
      THEN [self EXCEPT !.context_messages = Append(@, message)]
      ELSE Panic("not implemented")

\* One of the constructors returns an error.
Constructed(by, e) ==
    /\ ctor = NoCall
    /\ ctor' = by
    /\ built' = e
    /\ err' = e
    /\ UNCHANGED added
    /\ UNCHANGED exceptErr

ErrInsert(R, id, cause) ==
    Constructed([fn |-> "insert", R |-> R, id |-> id, cause |-> cause], insert(R, id, cause))

ErrRemove(R, id, cause) ==
    Constructed([fn |-> "remove", R |-> R, id |-> id, cause |-> cause], remove(R, id, cause))

ErrGet(R, id, cause) ==
    Constructed([fn |-> "get", R |-> R, id |-> id, cause |-> cause], get(R, id, cause))

ErrList(R, cause) ==
    Constructed([fn |-> "list", R |-> R, cause |-> cause], list(R, cause))

ErrNew(R, id, operation, cause) ==
    Constructed([fn |-> "new", R |-> R, id |-> id, operation |-> operation, cause |-> cause],
                new(R, id, operation, cause))

\* #[from] diesel::result::Error
ErrFromDiesel(source) ==
    Constructed([fn |-> "from", source |-> source], DieselInternal(source))

\* e.context(message) on the error as it is now
ErrContext(message) ==
    /\ err.variant \in {"Custom", "DieselInternal"}
    /\ err' = context(err, message)
    /\ added' = Append(added, message)
    /\ UNCHANGED <<ctor, built>>
    /\ UNCHANGED exceptErr

ErrNext ==
    \/ \E R \in Resources, id \in ResourceIds, cause \in Errors : ErrInsert(R, id, cause)
    \/ \E R \in Resources, id \in ResourceIds, cause \in Errors : ErrRemove(R, id, cause)
    \/ \E R \in Resources, id \in ResourceIds, cause \in Errors : ErrGet(R, id, cause)
    \/ \E R \in Resources, cause \in Errors : ErrList(R, cause)
    \/ \E R \in Resources, id \in {None} \cup {Some(i) : i \in ResourceIds},
          operation \in PersistenceOperation, cause \in {None} \cup {Some(c) : c \in Errors} :
            ErrNew(R, id, operation, cause)
    \/ \E source \in DieselErrors : ErrFromDiesel(source)
    \/ \E message \in Messages : Len(added) < MaxContext /\ ErrContext(message)

ErrSpec == Init /\ [][ErrNext]_vars

\* C12: the context_messages of a Custom error are those it was built with
\* followed by the messages passed to context, in call order; resource_name,
\* operation, id and source are those it was built with.
C12_ContextMonotonic ==
    built.variant = "Custom" =>
        /\ err.variant = "Custom"
        /\ err.context_messages = built.context_messages \o added
        /\ err.resource_name = built.resource_name
        /\ err.operation = built.operation
        /\ err.id = built.id
        /\ err.source = built.source

\* e.context(a).context(b) with a # b was evaluated on a Custom error.
C12_Witness ==
    /\ built.variant = "Custom"
    /\ Len(added) >= 2
    /\ added[1] # added[2]
    /\ err.variant = "Custom"
    /\ err.context_messages = added

ExpectedOperation(fn) ==
    CASE fn = "insert" -> "Insert"
      [] fn = "remove" -> "Remove"
      [] fn = "get" -> "Get"
      [] fn = "list" -> "List"

\* C13: insert, remove and get build a Custom error with operation Insert,
\* Remove and Get, the given primary key as id, the type name of R as
\* resource_name and the given cause as source; list builds one with
\* operation List and no id; a freshly constructed error has no context
\* messages.
C13_AnnotatedByOperation ==
    /\ ctor.fn \in {"insert", "remove", "get", "list"} =>
        /\ built.variant = "Custom"
        /\ built.operation = ExpectedOperation(ctor.fn)
        /\ built.resource_name = type_name(ctor.R)
        /\ built.source = [some |-> TRUE, value |-> [boxed |-> ctor.cause]]
        /\ built.id = IF ctor.fn = "list" THEN [some |-> FALSE]
                                          ELSE [some |-> TRUE, value |-> ctor.id.uuid]
    /\ built.variant = "Custom" => built.context_messages = <<>>

\* get::<ClusterConfiguration>(id, cause) has returned its error.
C13_Witness ==
    /\ ctor.fn = "get"
    /\ ctor.R = "ClusterConfiguration"
    /\ built.variant = "Custom"
    /\ built.id = Some("u2")
    /\ built.source = Some(Into_Cause("NotFound"))

\* C18: context applied to a PersistenceError of either variant returns an
\* error (it does not abort) of the same variant and with the same source.
C18_ContextOnEveryVariant ==
    added # <<>> =>
        /\ err.variant \in {"Custom", "DieselInternal"}
        /\ err.variant = built.variant
        /\ err.source = built.source

-----------------------------------------------------------------------------
(* ParameterValue (opendut-types/src/peer/configuration/parameter/value.rs) *)

OPENDUT_UUID_NAMESPACE == "OPENDUT_UUID_NAMESPACE"

\* ExecutorKind: Executable, or Container { name, image, .. }
Executable == [variant |-> "Executable"]
Container(name, image) == [variant |-> "Container", name |-> name, image |-> image]

ExecutorKinds ==
    {Executable, Container("n1", "image1"), Container("n1", "image2"), Container("n2", "image1")}

ExecutorDescriptors ==
    [type : {"ExecutorDescriptor"}, id : {"e1", "e2"}, kind : ExecutorKinds,
     results_url : {None, Some("https://results.example/")}]

\* EthernetBridge { name: NetworkInterfaceName }
EthernetBridges ==
    [type : {"EthernetBridge"}, name : {[NetworkInterfaceName |-> "br0"], [NetworkInterfaceName |-> "br1"]}]

ParameterTargets == {"Present", "Absent"}

\* std::hash::DefaultHasher: SipHash-1-3 over the bytes written, fixed keys
DefaultHasher_new_KeyedByCalls == [k0 |-> Len(idcalls), k1 |-> 0, written |-> <<>>]

DefaultHasher_new == [k0 |-> 0, k1 |-> 0, written |-> <<>>]

write(hasher, item) == [hasher EXCEPT !.written = Append(@, item)]

\* Hash of a fieldless enum variant and of Option's variants: the discriminant
hash_discriminant(hasher, d) == write(hasher, <<"isize", d>>)

\* Hash of a string: its bytes and 0xff
hash_str(hasher, str) == write(hasher, <<"str", str>>)

\* Hash for Option<Url>
hash_results_url(hasher, results_url) ==
    IF results_url.some THEN hash_str(hash_discriminant(hasher, "1"), results_url.value)
                        ELSE hash_discriminant(hasher, "0")

\* Hasher::finish
finish(hasher) == [siphash13 |-> <<hasher.k0, hasher.k1>>, of |-> hasher.written]

to_le_bytes(id) == [le_bytes |-> id]

Uuid_new_v5(namespace, name) == [uuid_v5 |-> namespace, name |-> name]

ParameterId(uuid) == [ParameterId |-> uuid]

\* the match on self.kind
hash_kind_WithExecutorId(self, hasher) ==
    IF self.kind.variant = "Executable"
      THEN hash_str(hash_discriminant(hasher, "0"), self.id)
      ELSE hash_str(hash_str(hasher, self.kind.name), self.id)

hash_kind(self, hasher) ==
    IF self.kind.variant = "Executable"
      THEN hash_discriminant(hasher, "0")
      ELSE hash_str(hasher, self.kind.name)

\* impl ParameterValue for ExecutorDescriptor
ExecutorDescriptor_parameter_identifier(self) ==
    LET hasher == hash_results_url(hash_kind(self, DefaultHasher_new), self.results_url)
        id == finish(hasher)
    IN  ParameterId(Uuid_new_v5(OPENDUT_UUID_NAMESPACE, to_le_bytes(id)))

\* NetworkInterfaceName::name
NetworkInterfaceName_name(interface) == interface.NetworkInterfaceName

\* impl ParameterValue for EthernetBridge
EthernetBridge_parameter_identifier(self) ==
    LET hasher == hash_str(DefaultHasher_new, NetworkInterfaceName_name(self.name))
        id == finish(hasher)
    IN  ParameterId(Uuid_new_v5(OPENDUT_UUID_NAMESPACE, to_le_bytes(id)))

parameter_identifier(value) ==
    IF value.type = "ExecutorDescriptor" THEN ExecutorDescriptor_parameter_identifier(value)
                                          ELSE EthernetBridge_parameter_identifier(value)

\* value.parameter_identifier() is called on an ExecutorDescriptor
IdOfExecutor(value) ==
    /\ idcalls' = Append(idcalls, [value |-> value, id |-> ExecutorDescriptor_parameter_identifier(value)])
    /\ UNCHANGED <<peer_configuration, inserts>>
    /\ UNCHANGED exceptParam

\* value.parameter_identifier() is called on an EthernetBridge
IdOfBridge(value) ==
    /\ idcalls' = Append(idcalls, [value |-> value, id |-> EthernetBridge_parameter_identifier(value)])
    /\ UNCHANGED <<peer_configuration, inserts>>
    /\ UNCHANGED exceptParam

ParamNext ==
    \/ \E value \in ExecutorDescriptors : Len(idcalls) < MaxIdCalls /\ IdOfExecutor(value)
    \/ \E value \in EthernetBridges : Len(idcalls) < MaxIdCalls /\ IdOfBridge(value)

ParamSpec == Init /\ [][ParamNext]_vars

StableSubset(value) ==
    IF value.type = "ExecutorDescriptor"
      THEN <<"ExecutorDescriptor", value.kind.variant,
             IF value.kind.variant = "Container" THEN value.kind.name ELSE "",
             value.results_url>>
      ELSE <<"EthernetBridge", value.name.NetworkInterfaceName>>

\* C15: two values of one type that agree on the stable subset got the same
\* ParameterId, whatever their other fields are.
C15_DependsOnStableSubsetOnly ==
    \A i, j \in 1..Len(idcalls) :
        StableSubset(idcalls[i].value) = StableSubset(idcalls[j].value)
            => idcalls[i].id = idcalls[j].id

\* Two container executors with different executor ids and images, the same
\* container name and the same results URL got the same ParameterId.
C15_Witness ==
    \E i, j \in 1..Len(idcalls) :
        /\ idcalls[i].value.type = "ExecutorDescriptor"
        /\ idcalls[j].value.type = "ExecutorDescriptor"
        /\ idcalls[i].value.kind.variant = "Container"
        /\ idcalls[j].value.kind.variant = "Container"
        /\ idcalls[i].value.id # idcalls[j].value.id
        /\ idcalls[i].value.kind.image # idcalls[j].value.kind.image
        /\ idcalls[i].value.kind.name = idcalls[j].value.kind.name
        /\ idcalls[i].value.results_url = idcalls[j].value.results_url
        /\ idcalls[i].id = idcalls[j].id

-----------------------------------------------------------------------------
(* PeerConfiguration::insert with ParameterValue::peer_configuration_field *)

Parameter(id, value, target) == [id |-> id, value |-> value, target |-> target]

\* T::peer_configuration_field(peer_configuration): the list of the value's type
peer_configuration_field_Swapped(T) ==
    IF T = "ExecutorDescriptor" THEN "ethernet_bridges" ELSE "executors"

peer_configuration_field(T) ==
    IF T = "ExecutorDescriptor" THEN "executors" ELSE "ethernet_bridges"

\* peer_configuration.insert(value, target): the parameter is pushed to the
\* list of the value's type
PeerConfiguration_insert(self, value, target) ==
    LET parameter == Parameter(parameter_identifier(value), value, target)
    IN  [self EXCEPT ![peer_configuration_field(value.type)] = Append(@, parameter)]

Insert(value, target) ==
    /\ peer_configuration' = PeerConfiguration_insert(peer_configuration, value, target)
    /\ inserts' = Append(inserts, [value |-> value, target |-> target])
    /\ UNCHANGED idcalls
    /\ UNCHANGED exceptParam

ConfigNext ==
    \/ \E value \in ExecutorDescriptors, target \in ParameterTargets :
          Len(inserts) < MaxInserts /\ Insert(value, target)
    \/ \E value \in EthernetBridges, target \in ParameterTargets :
          Len(inserts) < MaxInserts /\ Insert(value, target)

ConfigSpec == Init /\ [][ConfigNext]_vars

Contains(parameters, value) == \E i \in 1..Len(parameters) : parameters[i].value = value

-----------------------------------------------------------------------------
(* load_config (opendut-util/src/settings.rs), called with name "carl" *)

Keys == {"network.bind.port", "vpn.enabled"}

\* A configuration document of a source: the keys it defines, each with a
\* value that names the source.
Documents(source) == {[k \in S |-> source] : S \in SUBSET Keys}

\* What is found at a path
Missing == [kind |-> "missing"]
Directory == [kind |-> "dir"]
Malformed == [kind |-> "file", parses |-> FALSE]
TomlFile(doc) == [kind |-> "file", parses |-> TRUE, doc |-> doc]
Found(source) == {Missing, Directory, Malformed} \cup {TomlFile(doc) : doc \in Documents(source)}

EnvironmentVariables == {"OPENDUT_CARL_NETWORK_BIND_PORT", "OPENDUT_CARL_VPN_ENABLED", "PATH"}

Processes ==
    [development : {"no", "yes", "unresolved"},     \* is_running_in_development, make_path_absolute
     user_dir : {"XDG_CONFIG_HOME", "home_dir", "none"},
     development_file : Found("development"),
     system_file : Found("system"),
     user_file : Found("user"),
     vars : SUBSET EnvironmentVariables,
     defaults : Documents("defaults"),
     overrides : Documents("overrides"),
     secret_redacted_overrides : {[k \in {"vpn.enabled"} |-> "redacted"]}]

path_exists(found) == found.kind # "missing"
path_is_file(found) == found.kind = "file"

\* The paths load_config builds
development_config == "opendut-carl/carl-development.toml"
system_config == "/etc/opendut/carl.toml"
user_config == "opendut/carl/config.toml"

\* What the process finds at a path
At(p, path) ==
    CASE path = development_config -> p.development_file
      [] path = system_config -> p.system_file
      [] OTHER -> p.user_file

\* config_files: the optional paths, in the order they are pushed
config_files(p) ==
    (IF p.development = "no" THEN <<>>
     ELSE IF p.development = "yes" THEN <<Some(development_config)>> ELSE <<None>>)
    \o <<Some(system_config)>>
    \o <<IF p.user_dir = "none" THEN None ELSE Some(user_config)>>

RECURSIVE Declared(_)
Declared(files) ==
    IF files = <<>> THEN <<>>
    ELSE (IF Head(files).some THEN <<Head(files).value>> ELSE <<>>) \o Declared(Tail(files))

RECURSIVE Used(_, _)
Used(p, declared) ==
    IF declared = <<>> THEN <<>>
    ELSE (IF path_exists(At(p, Head(declared))) /\ path_is_file(At(p, Head(declared)))
            THEN <<Head(declared)>> ELSE <<>>) \o Used(p, Tail(declared))

\* config::Environment with prefix OPENDUT_CARL and separator "_": the key of
\* a variable, or no key for a variable without the prefix
EnvironmentKey(var) ==
    CASE var = "OPENDUT_CARL_NETWORK_BIND_PORT" -> Some("network.bind.port")
      [] var = "OPENDUT_CARL_VPN_ENABLED" -> Some("vpn.enabled")
      [] OTHER -> None

Environment(p) ==
    [k \in {EnvironmentKey(var).value : var \in {v \in p.vars : EnvironmentKey(v).some}} |-> "environment"]

\* config::File::from(path).required(false): the document, or a parse error
File(p, path) == IF At(p, path).parses THEN Ok(At(p, path).doc) ELSE Err("ConfigError")

\* ConfigBuilder::build: the sources are merged in the order they were added,
\* a later source overrides the keys it defines
Merge_KeepFirst(cache, doc) ==
    [k \in DOMAIN cache \cup DOMAIN doc |-> IF k \in DOMAIN cache THEN cache[k] ELSE doc[k]]

Merge(cache, doc) ==
    [k \in DOMAIN cache \cup DOMAIN doc |-> IF k \in DOMAIN doc THEN doc[k] ELSE cache[k]]

RECURSIVE build(_, _)
build(cache, sources) ==
    IF sources = <<>> THEN Ok(cache)
    ELSE IF ~Head(sources).ok THEN Head(sources)
    ELSE build(Merge(cache, Head(sources).value), Tail(sources))

EmptyConfig == [k \in {} |-> ""]

FileSources(p, used) == [i \in 1..Len(used) |-> File(p, used[i])]

load_config(p) ==
    LET sources_declared == Declared(config_files(p))
        sources_used == Used(p, sources_declared)
        settings == <<Ok(p.defaults)>> \o FileSources(p, sources_used)
                        \o <<Ok(Environment(p))>> \o <<Ok(p.overrides)>>
        secret_redacted_settings == settings \o <<Ok(p.secret_redacted_overrides)>>
        config == build(EmptyConfig, settings)
        redacted_config == build(EmptyConfig, secret_redacted_settings)
    IN  IF ~config.ok THEN Err("LoadError")
        ELSE IF ~redacted_config.ok THEN Err("LoadError")
        ELSE Ok([config |-> config.value,
                 redacted_config |-> redacted_config.value,
                 config_files_used |-> sources_used,
                 config_files_declared |-> sources_declared])

\* The service starts in some process environment.
SettingsInit ==
    /\ BrokerInit /\ DbInit /\ ErrInit /\ ParamInit
    /\ process \in Processes
    /\ loaded = NotLoaded

LoadConfig ==
    /\ loaded = NotLoaded
    /\ loaded' = load_config(process)
    /\ UNCHANGED process
    /\ UNCHANGED exceptSettings

SettingsNext == LoadConfig

SettingsSpec == SettingsInit /\ [][SettingsNext]_vars

\* The sources in increasing precedence
Precedence == <<"defaults", "development", "system", "user", "environment", "overrides">>

IsDocument(found) == found.kind = "file" /\ found.parses

\* The source defines the key: a file does if it exists as a file and holds
\* the key, the development file only in development mode, the user file
\* only if a user configuration directory is known.
Defines(p, source, k) ==
    CASE source = "defaults" -> k \in DOMAIN p.defaults
      [] source = "development" ->
            p.development = "yes" /\ IsDocument(p.development_file) /\ k \in DOMAIN p.development_file.doc
      [] source = "system" -> IsDocument(p.system_file) /\ k \in DOMAIN p.system_file.doc
      [] source = "user" ->
            p.user_dir # "none" /\ IsDocument(p.user_file) /\ k \in DOMAIN p.user_file.doc
      [] source = "environment" ->
            \/ k = "network.bind.port" /\ "OPENDUT_CARL_NETWORK_BIND_PORT" \in p.vars
            \/ k = "vpn.enabled" /\ "OPENDUT_CARL_VPN_ENABLED" \in p.vars
      [] source = "overrides" -> k \in DOMAIN p.overrides

Defining(p, k) == {i \in 1..Len(Precedence) : Defines(p, Precedence[i], k)}

Last(S) == CHOOSE i \in S : \A j \in S : j <= i

\* C17: in the configuration load_config returns, every key has the value of
\* the last source, in the order defaults, development file, system file,
\* user file, environment variables, overrides, that defines it, and a key
\* no source defines is absent, whichever files exist.
C17_ConfigurationPrecedence ==
    loaded.ok =>
        \A k \in Keys :
            IF Defining(process, k) = {}
              THEN k \notin DOMAIN loaded.value.config
              ELSE /\ k \in DOMAIN loaded.value.config
                   /\ loaded.value.config[k] = Precedence[Last(Defining(process, k))]

\* load_config has returned in development mode with the system file missing:
\* one key is defined by the defaults, the development file and the user file
\* and has the user file's value, the other is defined by the user file and
\* the environment and has the environment's value.
C17_Witness ==
    /\ loaded.ok
    /\ process.development = "yes"
    /\ process.system_file = Missing
    /\ Defining(process, "network.bind.port") = {1, 2, 4}
    /\ Defining(process, "vpn.enabled") = {4, 5}
    /\ loaded.value.config["network.bind.port"] = "user"
    /\ loaded.value.config["vpn.enabled"] = "environment"
    /\ loaded.value.config_files_used = <<development_config, user_config>>

-----------------------------------------------------------------------------
(* The end of the inbound stream *)

\* One connection with its inbound frames; the session task keeps running.
InboundSpec ==
    /\ Init
    /\ [][SessionNext]_vars
    /\ WF_vars(SessionEnds("c1")) /\ WF_vars(SessionClosed("c1"))

\* The pump task holds tx_inbound while it runs.
InboundSenderHeld(c) == pump[c] = "running"

\* C19: once the inbound stream has ended the pump task has terminated, it
\* reads and forwards nothing afterwards and no longer holds tx_inbound, and
\* the session eventually leaves Connected because its inbound sink is
\* closed, also while the outbound stream is still consumed.
C19_InboundEndClosesInbound ==
    /\ [][\A c \in Conn :
            pump[c] = "done"
                => /\ pump'[c] = "done"
                   /\ ~InboundSenderHeld(c)'
                   /\ sink'[c] = sink[c]
                   /\ recv'[c] = recv[c]
                   /\ log'[c] = log[c]]_vars
    /\ \A c \in Conn : (pump[c] = "done") ~> (sess[c].st \in {"Closing", "Closed"})

\* The inbound stream ended after a forwarded message; the session is Closed
\* while the outbound stream is still held by the transport.
C19_Witness ==
    /\ pump["c1"] = "done"
    /\ Len(sink["c1"]) >= 1
    /\ recv["c1"][Len(recv["c1"])] = Frame("Data")
    /\ outRx["c1"] = "stream"
    /\ sess["c1"].st = "Closed"
    /\ ~sinkOpen["c1"]

====
